---- MODULE Spec2Model ----
(***************************************************************************)
(* Model of src/Libreria.py: the console inventory manager of the Libreria *)
(* Universitaria CUN.  The catalog `data` (a dict with the keys productos  *)
(* and categorias) is kept in memory, rewritten whole to productos.json by *)
(* save_data, copied to backups/ by backup_data and dumped to reportes/ by *)
(* generate_report_csv.  One action stands for one branch of the menu loop *)
(* of main(); the handler it calls is a pure operator that returns the new *)
(* catalog, the new file system and the lines it printed.                  *)
(*                                                                         *)
(* Text is a sequence of one-character strings, so that str.strip(),       *)
(* str.lower(), int() and float() are computed and not assumed.            *)
(***************************************************************************)
EXTENDS Integers, Sequences, FiniteSets, TLC

VARIABLES
  data,   \* the dict built by load_data and passed to every handler
  fs,     \* the files: path -> content (productos.json, backups/*, reportes/*)
  now,    \* the wall clock at the last command, in seconds
  pc,     \* "menu" while the loop of main() runs, "exited" after option 0
  inp,    \* the values the last command read from the console
  out     \* the outcome lines the last command printed

vars == <<data, fs, now, pc, inp, out>>

---------------------------------------------------------------------------
(* Bounds of the model. *)

MaxProducts == 2   \* products a catalog holds at most
MaxQty == 2        \* largest stock an increment may reach
MaxTime == 1       \* last second the clock reaches

---------------------------------------------------------------------------
(* Text *)

UpperChars == <<"A","B","C","D","E","F","G","H","I","J","K","L","M",
                "N","O","P","Q","R","S","T","U","V","W","X","Y","Z">>
LowerChars == <<"a","b","c","d","e","f","g","h","i","j","k","l","m",
                "n","o","p","q","r","s","t","u","v","w","x","y","z">>
DigitChars == <<"0","1","2","3","4","5","6","7","8","9">>

\* str.lower() on one character
LowerChar(c) ==
  IF \E i \in DOMAIN UpperChars : UpperChars[i] = c
  THEN LowerChars[CHOOSE i \in DOMAIN UpperChars : UpperChars[i] = c]
  ELSE c

\* str.lower()
Lower(s) == [i \in DOMAIN s |-> LowerChar(s[i])]

RECURSIVE LStrip(_)
LStrip(s) == IF s # <<>> /\ Head(s) = " " THEN LStrip(Tail(s)) ELSE s

RECURSIVE RStrip(_)
RStrip(s) ==
  IF s # <<>> /\ s[Len(s)] = " " THEN RStrip(SubSeq(s, 1, Len(s) - 1)) ELSE s

\* str.strip()
Strip(s) == RStrip(LStrip(s))

IsDigit(c) == \E i \in DOMAIN DigitChars : DigitChars[i] = c
DigitVal(c) == (CHOOSE i \in DOMAIN DigitChars : DigitChars[i] = c) - 1
AllDigits(s) == s # <<>> /\ \A i \in DOMAIN s : IsDigit(s[i])

RECURSIVE DigitsVal(_)
DigitsVal(s) ==
  IF s = <<>> THEN 0
  ELSE 10 * DigitsVal(SubSeq(s, 1, Len(s) - 1)) + DigitVal(s[Len(s)])

HasSign(s) == s # <<>> /\ Head(s) \in {"+", "-"}
Unsigned(s) == IF HasSign(s) THEN Tail(s) ELSE s
Signed(s, n) == IF s # <<>> /\ Head(s) = "-" THEN 0 - n ELSE n

\* int(v): ok is FALSE where Python raises ValueError
ParseInt(v) ==
  LET s == Strip(v) IN
  IF AllDigits(Unsigned(s))
  THEN [ok |-> TRUE, val |-> Signed(s, DigitsVal(Unsigned(s)))]
  ELSE [ok |-> FALSE, val |-> 0]

DotAt(s) == IF \E i \in DOMAIN s : s[i] = "."
            THEN CHOOSE i \in DOMAIN s : s[i] = "."
            ELSE 0

\* float(v), the value counted in hundredths (the texts of the model carry
\* at most two decimals); nan is float("nan"), which compares FALSE with 0.
ParseFloat(v) ==
  LET s == Strip(v)
      u == Unsigned(s)
      d == DotAt(u)
      ip == IF d = 0 THEN u ELSE SubSeq(u, 1, d - 1)
      fp == IF d = 0 THEN <<>> ELSE SubSeq(u, d + 1, Len(u))
      frac == IF Len(fp) = 0 THEN 0
              ELSE IF Len(fp) = 1 THEN 10 * DigitsVal(fp)
              ELSE DigitsVal(fp)
  IN
  IF Lower(u) = <<"n", "a", "n">>
  THEN [ok |-> TRUE, nan |-> TRUE, val |-> 0]
  ELSE IF /\ (ip # <<>> \/ fp # <<>>)
          /\ \A i \in DOMAIN ip : IsDigit(ip[i])
          /\ \A i \in DOMAIN fp : IsDigit(fp[i])
          /\ Len(fp) <= 2
  THEN [ok |-> TRUE, nan |-> FALSE,
        val |-> Signed(s, 100 * DigitsVal(ip) + frac)]
  ELSE [ok |-> FALSE, nan |-> FALSE, val |-> 0]

\* f >= 0 on a float
FloatGe0(f) == ~f.nan /\ f.val >= 0

\* x in list
InList(x, list) == \E i \in DOMAIN list : list[i] = x

\* d[k] = v on a dict, the key added when absent
SetKey(d, k, v) == [x \in DOMAIN d \cup {k} |-> IF x = k THEN v ELSE d[x]]


\* str(n) of an integer
RECURSIVE NatText(_)
NatText(n) ==
  IF n < 10 THEN <<DigitChars[n + 1]>>
  ELSE NatText(n \div 10) \o <<DigitChars[(n % 10) + 1]>>

IntText(n) == IF n < 0 THEN <<"-">> \o NatText(0 - n) ELSE NatText(n)

\* f"{x:.2f}" of a float counted in hundredths
Format2f(x) ==
  LET a == IF x < 0 THEN 0 - x ELSE x
      body == NatText(a \div 100) \o <<".">>
              \o <<DigitChars[((a % 100) \div 10) + 1]>>
              \o <<DigitChars[(a % 10) + 1]>>
  IN IF x < 0 THEN <<"-">> \o body ELSE body

\* datetime.now().isoformat(), the text of the clock reading
Isoformat(t) == IntText(t)

\* datetime.now().strftime("%Y%m%d_%H%M%S"), the text of the second
Strftime(t) == IntText(t)

---------------------------------------------------------------------------
(* Persistence *)

DATA_FILE == <<"productos.json">>
BACKUP_DIR == "backups"
REPORT_DIR == "reportes"

\* the category given to a product registered with no category, and to the
\* products of a deleted category
SinCategoria ==
  <<"S","i","n"," ","c","a","t","e","g","o","r","í","a">>

EmptyData == [productos |-> <<>>, categorias |-> <<>>]

\* repr of a float counted in hundredths, as json.dump writes it: 1.0, 0.5,
\* 1.25
FloatRepr(x) ==
  LET a == IF x < 0 THEN 0 - x ELSE x
      tenths == <<DigitChars[((a % 100) \div 10) + 1]>>
      body == NatText(a \div 100) \o <<".">> \o tenths
              \o (IF a % 10 = 0 THEN <<>> ELSE <<DigitChars[(a % 10) + 1]>>)
  IN IF x < 0 THEN <<"-">> \o body ELSE body

\* a string as json.dump writes it with ensure_ascii=False: between quotes,
\* its letters as they are
JsonString(s) == <<"\"">> \o s \o <<"\"">>

\* the string between the quotes
JsonUnquote(s) == SubSeq(s, 2, Len(s) - 1)

\* one value of a product in the document: numbers as their digits, strings
\* quoted
JsonValue(k, v) ==
  IF k = "cantidad" THEN IntText(v)
  ELSE IF k = "precio" THEN FloatRepr(v)
  ELSE JsonString(v)

\* the value json.load builds from the text of a product's value
JsonParse(k, v) ==
  IF k = "cantidad" THEN ParseInt(v).val
  ELSE IF k = "precio" THEN ParseFloat(v).val
  ELSE JsonUnquote(v)

\* the members of the document written for the key k of data
JsonMember(k, v) ==
  IF k = "productos"
  THEN [i \in DOMAIN v |-> [f \in DOMAIN v[i] |-> JsonValue(f, v[i][f])]]
  ELSE [i \in DOMAIN v |-> JsonString(v[i])]

\* json.dump(data, f): the document as text
JsonDump(d) ==
  [kind |-> "json", body |-> [k \in DOMAIN d |-> JsonMember(k, d[k])]]

\* json.load(f) of a document json.dump wrote
JsonLoad(doc) ==
  [k \in DOMAIN doc |->
     IF k = "productos"
     THEN [i \in DOMAIN doc[k] |->
             [f \in DOMAIN doc[k][i] |-> JsonParse(f, doc[k][i][f])]]
     ELSE [i \in DOMAIN doc[k] |-> JsonUnquote(doc[k][i])]]

\* a file that json.load cannot parse
Garbage == [kind |-> "garbage", body |-> [productos |-> <<>>]]

\* open(path, "w") and write: the file is created or replaced whole
WriteFile(files, path, content) ==
  [p \in DOMAIN files \cup {path} |->
     IF p = path THEN content ELSE files[p]]

NoFiles == [p \in {} |-> Garbage]

\* load_data with what json.load returned dropped: it falls through to the
\* empty structure
load_data_reset(files) == EmptyData

\* load_data(): the empty structure when the file is absent or corrupt
load_data(files) ==
  IF DATA_FILE \notin DOMAIN files THEN EmptyData
  ELSE IF files[DATA_FILE].kind = "json" THEN JsonLoad(files[DATA_FILE].body)
  ELSE EmptyData

\* save_data(data): the files after the write
save_data(files, d) == WriteFile(files, DATA_FILE, JsonDump(d))

BackupPath(t) == <<BACKUP_DIR, "productos_backup_", Strftime(t), ".json">>

\* backup_data(): shutil.copy2(DATA_FILE, dest)
backup_data(files, t) == WriteFile(files, BackupPath(t), files[DATA_FILE])

\* what a handler leaves behind: the catalog, the files, the lines printed
\* and the answers it read
Result(d, files, lines, read) ==
  [data |-> d, fs |-> files, out |-> lines, inp |-> read]

\* the answers of a that a handler got to ask for
Read(a, keys) == [k \in keys |-> a[k]]

---------------------------------------------------------------------------
(* Console input *)

\* input_non_empty(prompt): the values it can return when the user answers
\* with lines of `lines`
input_non_empty(lines) == {Strip(l) : l \in {x \in lines : Strip(x) # <<>>}}

\* input_positive_int(prompt): it asks again until int(v) >= 0
input_positive_int(lines) ==
  {ParseInt(l).val : l \in {x \in lines : ParseInt(x).ok /\ ParseInt(x).val >= 0}}

\* input_positive_float(prompt): it asks again until float(v) >= 0
input_positive_float(lines) ==
  {ParseFloat(l).val :
     l \in {x \in lines : ParseFloat(x).ok /\ FloatGe0(ParseFloat(x))}}

---------------------------------------------------------------------------
(* Operations on products *)

\* sub in s on strings
Contains(sub, s) ==
  \E k \in 0..(Len(s) - Len(sub)) : SubSeq(s, k + 1, k + Len(sub)) = sub

\* find_product_by_code with "in" written for "==": the typed code only has
\* to occur in the product's code
find_product_by_code_substring(d, code) ==
  LET c == Lower(code)
      hits == {i \in DOMAIN d.productos :
                 Contains(c, Lower(d.productos[i].codigo))}
  IN IF hits = {} THEN 0
     ELSE CHOOSE i \in hits : \A j \in hits : i <= j

\* find_product_by_code with the codes compared as typed, .lower() forgotten
find_product_by_code_exact(d, code) ==
  LET hits == {i \in DOMAIN d.productos : d.productos[i].codigo = code}
  IN IF hits = {} THEN 0
     ELSE CHOOSE i \in hits : \A j \in hits : i <= j

\* find_product_by_code(data, code): the position of the first product whose
\* code matches, 0 for None
find_product_by_code(d, code) ==
  LET c == Lower(code)
      hits == {i \in DOMAIN d.productos : Lower(d.productos[i].codigo) = c}
  IN IF hits = {} THEN 0
     ELSE CHOOSE i \in hits : \A j \in hits : i <= j

\* the catalog with product i replaced by p (p is mutated in place)
WithProduct(d, i, p) == [d EXCEPT !.productos[i] = p]

\* AddCategoria with the test "not in" left out
AddCategoria_always(d, categoria) ==
  [d EXCEPT !.categorias = Append(@, categoria)]

\* if categoria not in data["categorias"]: data["categorias"].append(categoria)
AddCategoria(d, categoria) ==
  IF InList(categoria, d.categorias) THEN d
  ELSE [d EXCEPT !.categorias = Append(@, categoria)]

\* register_product with the category added to the list before the code is
\* looked up
register_product_late_check(d, files, a, t) ==
  LET categoria == IF a.categoria # <<>> THEN a.categoria ELSE SinCategoria
      d1 == AddCategoria(d, categoria)
  IN
  IF find_product_by_code(d, a.codigo) # 0
  THEN Result(d1, files, <<"[ERROR] Ya existe un producto con código">>,
              Read(a, {"menu", "codigo"}))
  ELSE
    LET producto == [codigo |-> a.codigo,
                     nombre |-> a.nombre,
                     categoria |-> categoria,
                     cantidad |-> a.cantidad,
                     precio |-> a.precio,
                     descripcion |-> a.descripcion,
                     fecha_creacion |-> Isoformat(t)]
        d2 == [d1 EXCEPT !.productos = Append(@, producto)]
    IN Result(d2, save_data(files, d2),
              <<"Producto registrado correctamente.">>, a)

\* register_product(data), a the answers to its prompts: codigo and nombre
\* as input_non_empty returns them, categoria and descripcion stripped,
\* cantidad and precio as input_positive_int and input_positive_float return
\* them
register_product(d, files, a, t) ==
  IF find_product_by_code(d, a.codigo) # 0
  THEN Result(d, files, <<"[ERROR] Ya existe un producto con código">>,
              Read(a, {"menu", "codigo"}))
  ELSE
    LET categoria == IF a.categoria # <<>> THEN a.categoria ELSE SinCategoria
        d1 == AddCategoria(d, categoria)
        producto == [codigo |-> a.codigo,
                     nombre |-> a.nombre,
                     categoria |-> categoria,
                     cantidad |-> a.cantidad,
                     precio |-> a.precio,
                     descripcion |-> a.descripcion,
                     fecha_creacion |-> Isoformat(t)]
        d2 == [d1 EXCEPT !.productos = Append(@, producto)]
    IN Result(d2, save_data(files, d2),
              <<"Producto registrado correctamente.">>, a)

\* ModifyCantidad with the test n >= 0 left out
ModifyCantidad_any_int(p, cantidad) ==
  LET n == ParseInt(cantidad) IN
  IF cantidad = <<>> THEN p
  ELSE IF n.ok THEN [p EXCEPT !.cantidad = n.val]
  ELSE p

\* modify_product, lines 182-190: the new quantity when the text is accepted
ModifyCantidad(p, cantidad) ==
  LET n == ParseInt(cantidad) IN
  IF cantidad = <<>> THEN p
  ELSE IF n.ok /\ n.val >= 0 THEN [p EXCEPT !.cantidad = n.val]
  ELSE p

\* modify_product, lines 187-190: what it prints about the quantity
CantidadLines(cantidad) ==
  LET n == ParseInt(cantidad) IN
  IF cantidad # <<>> /\ ~(n.ok /\ n.val >= 0)
  THEN <<"Cantidad no válida, se mantiene la anterior.">>
  ELSE <<>>

\* modify_product, lines 191-199: the new price when the text is accepted
ModifyPrecio(p, precio) ==
  LET f == ParseFloat(precio) IN
  IF precio = <<>> THEN p
  ELSE IF f.ok /\ FloatGe0(f) THEN [p EXCEPT !.precio = f.val]
  ELSE p

\* modify_product, lines 196-199: what it prints about the price
PrecioLines(precio) ==
  LET f == ParseFloat(precio) IN
  IF precio # <<>> /\ ~(f.ok /\ FloatGe0(f))
  THEN <<"Precio no válido, se mantiene el anterior.">>
  ELSE <<>>

\* ModifyCategorias with the append left out
ModifyCategorias_no_add(d, categoria) == d

\* modify_product, lines 173-175: a category typed for the first time joins
\* the list
ModifyCategorias(d, categoria) ==
  IF categoria # <<>> THEN AddCategoria(d, categoria) ELSE d

\* modify_product that gives up, nothing applied, at a quantity or a price it
\* does not accept
modify_product_abort_on_invalid(d, files, a, t) ==
  LET i == find_product_by_code(d, a.code) IN
  IF i = 0
  THEN Result(d, files, <<"No existe un producto con ese código.">>,
              Read(a, {"menu", "code"}))
  ELSE
    LET d1 == ModifyCategorias(d, a.categoria)
        p0 == d.productos[i]
        p1 == IF a.nombre # <<>> THEN [p0 EXCEPT !.nombre = a.nombre] ELSE p0
        p2 == IF a.categoria # <<>> THEN [p1 EXCEPT !.categoria = a.categoria]
              ELSE p1
        p3 == ModifyCantidad(p2, a.cantidad)
        p4 == ModifyPrecio(p3, a.precio)
        p5 == IF a.descripcion # <<>>
              THEN [p4 EXCEPT !.descripcion = a.descripcion] ELSE p4
        p6 == SetKey(p5, "fecha_modificacion", Isoformat(t))
        d2 == WithProduct(d1, i, p6)
        lines == CantidadLines(a.cantidad) \o PrecioLines(a.precio)
    IN IF lines # <<>> THEN Result(d1, files, lines, a)
       ELSE Result(d2, save_data(files, d2),
                   lines \o <<"Producto actualizado correctamente.">>, a)

\* modify_product(data), a the answers to its prompts, each stripped
modify_product(d, files, a, t) ==
  LET i == find_product_by_code(d, a.code) IN
  IF i = 0
  THEN Result(d, files, <<"No existe un producto con ese código.">>,
              Read(a, {"menu", "code"}))
  ELSE
    LET d1 == ModifyCategorias(d, a.categoria)
        p0 == d.productos[i]
        p1 == IF a.nombre # <<>> THEN [p0 EXCEPT !.nombre = a.nombre] ELSE p0
        p2 == IF a.categoria # <<>> THEN [p1 EXCEPT !.categoria = a.categoria]
              ELSE p1
        p3 == ModifyCantidad(p2, a.cantidad)
        p4 == ModifyPrecio(p3, a.precio)
        p5 == IF a.descripcion # <<>>
              THEN [p4 EXCEPT !.descripcion = a.descripcion] ELSE p4
        p6 == SetKey(p5, "fecha_modificacion", Isoformat(t))
        d2 == WithProduct(d1, i, p6)
    IN Result(d2, save_data(files, d2),
              CantidadLines(a.cantidad) \o PrecioLines(a.precio)
              \o <<"Producto actualizado correctamente.">>, a)

\* the confirmation read as "anything but n"
Confirms_unless_n(answer) == Lower(Strip(answer)) # <<"n">>

\* delete_product, lines 214-215: the answer that confirms
Confirms(answer) == Lower(Strip(answer)) = <<"s">>

\* delete_product with the list filtered on the codes as typed, .lower()
\* forgotten
delete_product_exact(d, files, a) ==
  IF find_product_by_code(d, a.code) = 0
  THEN Result(d, files, <<"No existe un producto con ese código.">>,
              Read(a, {"menu", "code"}))
  ELSE IF Confirms(a.confirm)
  THEN LET keep(x) == x.codigo # a.code
           d2 == [d EXCEPT !.productos = SelectSeq(@, keep)]
       IN Result(d2, save_data(files, d2), <<"Producto eliminado.">>, a)
  ELSE Result(d, files, <<"Operación cancelada.">>, a)

\* delete_product(data), a the answers to its prompts: code as
\* input_non_empty returns it, confirm as typed
delete_product(d, files, a) ==
  IF find_product_by_code(d, a.code) = 0
  THEN Result(d, files, <<"No existe un producto con ese código.">>,
              Read(a, {"menu", "code"}))
  ELSE IF Confirms(a.confirm)
  THEN LET keep(x) == Lower(x.codigo) # Lower(a.code)
           d2 == [d EXCEPT !.productos = SelectSeq(@, keep)]
       IN Result(d2, save_data(files, d2), <<"Producto eliminado.">>, a)
  ELSE Result(d, files, <<"Operación cancelada.">>, a)

\* Disminuir with the guard written n >= p["cantidad"]
Disminuir_strict(p, n) ==
  IF n >= p.cantidad THEN [refused |-> TRUE, p |-> p]
  ELSE [refused |-> FALSE, p |-> [p EXCEPT !.cantidad = @ - n]]

\* control_stock, lines 302-307: the stock after "3) Disminuir", refused is
\* TRUE when the handler prints and returns
Disminuir(p, n) ==
  IF n > p.cantidad THEN [refused |-> TRUE, p |-> p]
  ELSE [refused |-> FALSE, p |-> [p EXCEPT !.cantidad = @ - n]]

\* control_stock(data), a the answers to its prompts: code as
\* input_non_empty returns it, opt stripped, n as input_positive_int returns it
control_stock(d, files, a, t) ==
  LET i == find_product_by_code(d, a.code) IN
  IF i = 0
  THEN Result(d, files, <<"Producto no encontrado.">>,
              Read(a, {"menu", "code"}))
  ELSE
    LET p == d.productos[i]
        stamped(q) ==
          LET d2 == WithProduct(d, i,
                      SetKey(q, "fecha_modificacion", Isoformat(t)))
          IN Result(d2, save_data(files, d2), <<"Stock actualizado.">>, a)
    IN
    IF a.opt = <<"1">> THEN stamped([p EXCEPT !.cantidad = a.n])
    ELSE IF a.opt = <<"2">> THEN stamped([p EXCEPT !.cantidad = @ + a.n])
    ELSE IF a.opt = <<"3">>
    THEN LET dec == Disminuir(p, a.n) IN
         IF dec.refused
         THEN Result(d, files,
                <<"No puede disminuir más que la cantidad disponible.">>, a)
         ELSE stamped(dec.p)
    ELSE Result(d, files, <<"Opción inválida.">>,
                Read(a, {"menu", "code", "opt"}))

---------------------------------------------------------------------------
(* Categories, report, backup *)

\* Renombrar with the test on the product's category left out
Renombrar_all(d, old, new, t) ==
  LET ren(p) == SetKey([p EXCEPT !.categoria = new],
                       "fecha_modificacion", Isoformat(t))
  IN [productos |-> [i \in DOMAIN d.productos |-> ren(d.productos[i])],
      categorias |-> [i \in DOMAIN d.categorias |->
                        IF d.categorias[i] = old THEN new
                        ELSE d.categorias[i]]]

\* Renombrar with the date written to fecha_creacion
Renombrar_restamp(d, old, new, t) ==
  LET ren(p) == IF p.categoria = old
                THEN SetKey([p EXCEPT !.categoria = new],
                            "fecha_creacion", Isoformat(t))
                ELSE p
  IN [productos |-> [i \in DOMAIN d.productos |-> ren(d.productos[i])],
      categorias |-> [i \in DOMAIN d.categorias |->
                        IF d.categorias[i] = old THEN new
                        ELSE d.categorias[i]]]

\* manage_categories, lines 337-342: the list and the products after a rename
Renombrar(d, old, new, t) ==
  LET ren(p) == IF p.categoria = old
                THEN SetKey([p EXCEPT !.categoria = new],
                            "fecha_modificacion", Isoformat(t))
                ELSE p
  IN [productos |-> [i \in DOMAIN d.productos |-> ren(d.productos[i])],
      categorias |-> [i \in DOMAIN d.categorias |->
                        IF d.categorias[i] = old THEN new
                        ELSE d.categorias[i]]]

\* Eliminar with the loop over the products left out
Eliminar_list_only(d, cat, t) ==
  LET keep(c) == c # cat
  IN [productos |-> d.productos,
      categorias |-> SelectSeq(d.categorias, keep)]

\* manage_categories, lines 350-355: the products and the list after a delete
Eliminar(d, cat, t) ==
  LET re(p) == IF p.categoria = cat
               THEN SetKey([p EXCEPT !.categoria = SinCategoria],
                           "fecha_modificacion", Isoformat(t))
               ELSE p
      keep(c) == c # cat
  IN [productos |-> [i \in DOMAIN d.productos |-> re(d.productos[i])],
      categorias |-> SelectSeq(d.categorias, keep)]

\* CrearCategoria with the append done before the test, and undone nowhere
CrearCategoria_append_first(d, files, a) ==
  LET d2 == [d EXCEPT !.categorias = Append(@, a.cat)] IN
  IF InList(a.cat, d.categorias)
  THEN Result(d2, files, <<"La categoría ya existe.">>,
              Read(a, {"menu", "opt", "cat"}))
  ELSE Result(d2, save_data(files, d2), <<"Categoría creada.">>,
              Read(a, {"menu", "opt", "cat"}))

\* CrearCategoria with save_data(data) left out
CrearCategoria_no_save(d, files, a) ==
  IF InList(a.cat, d.categorias)
  THEN Result(d, files, <<"La categoría ya existe.">>,
              Read(a, {"menu", "opt", "cat"}))
  ELSE LET d2 == [d EXCEPT !.categorias = Append(@, a.cat)]
       IN Result(d2, files, <<"Categoría creada.">>,
                 Read(a, {"menu", "opt", "cat"}))

\* manage_categories, lines 320-327: "1) Crear categoría"
CrearCategoria(d, files, a) ==
  IF InList(a.cat, d.categorias)
  THEN Result(d, files, <<"La categoría ya existe.">>,
              Read(a, {"menu", "opt", "cat"}))
  ELSE LET d2 == [d EXCEPT !.categorias = Append(@, a.cat)]
       IN Result(d2, save_data(files, d2), <<"Categoría creada.">>,
                 Read(a, {"menu", "opt", "cat"}))

\* manage_categories(data), a the answers to its prompts: opt stripped, cat
\* (old for a rename) and new as input_non_empty returns them
manage_categories(d, files, a, t) ==
  IF a.opt = <<"1">> THEN CrearCategoria(d, files, a)
  ELSE IF a.opt = <<"2">>
  THEN IF ~InList(a.cat, d.categorias)
       THEN Result(d, files, <<"No existe la categoría.">>,
                   Read(a, {"menu", "opt", "cat"}))
       ELSE IF InList(a.new, d.categorias)
       THEN Result(d, files, <<"Ya existe una categoría con ese nombre.">>, a)
       ELSE LET d2 == Renombrar(d, a.cat, a.new, t)
            IN Result(d2, save_data(files, d2),
                 <<"Categoría renombrada y productos actualizados.">>, a)
  ELSE IF a.opt = <<"3">>
  THEN IF ~InList(a.cat, d.categorias)
       THEN Result(d, files, <<"No existe la categoría.">>,
                   Read(a, {"menu", "opt", "cat"}))
       ELSE LET d2 == Eliminar(d, a.cat, t)
            IN Result(d2, save_data(files, d2),
                 <<"Categoría eliminada y productos reasignados a 'Sin categoría'.">>,
                 Read(a, {"menu", "opt", "cat"}))
  ELSE Result(d, files, <<"Opción inválida.">>, Read(a, {"menu", "opt"}))

\* p.get(key, "")
Get(p, key) == IF key \in DOMAIN p THEN p[key] ELSE <<>>

ReportHeader ==
  <<"codigo", "nombre", "categoria", "cantidad", "precio", "descripcion",
    "fecha_creacion", "fecha_modificacion">>

\* generate_report_csv, lines 269-278: the row written for product p
ReportRow(p) ==
  <<p.codigo, p.nombre, p.categoria, IntText(p.cantidad), Format2f(p.precio),
    p.descripcion, Get(p, "fecha_creacion"), Get(p, "fecha_modificacion")>>

ReportPath(t) == <<REPORT_DIR, "reporte_productos_", Strftime(t), ".csv">>

\* generate_report_csv with the rows written last product first
generate_report_csv_reversed(d, files, t) ==
  IF d.productos = <<>>
  THEN Result(d, files, <<"No hay productos para generar reporte.">>,
              [menu |-> "8"])
  ELSE Result(d,
         WriteFile(files, ReportPath(t),
           [kind |-> "csv",
            body |-> [header |-> ReportHeader,
                      rows |-> [i \in DOMAIN d.productos |->
                                  ReportRow(d.productos[
                                    Len(d.productos) + 1 - i])]]]),
         <<"Reporte generado">>, [menu |-> "8"])

\* generate_report_csv(data)
generate_report_csv(d, files, t) ==
  IF d.productos = <<>>
  THEN Result(d, files, <<"No hay productos para generar reporte.">>,
              [menu |-> "8"])
  ELSE Result(d,
         WriteFile(files, ReportPath(t),
           [kind |-> "csv",
            body |-> [header |-> ReportHeader,
                      rows |-> [i \in DOMAIN d.productos |->
                                  ReportRow(d.productos[i])]]]),
         <<"Reporte generado">>, [menu |-> "8"])

\* find_products_by_name(data, name): the products whose name contains it,
\* case ignored
find_products_by_name(d, name) ==
  LET has(p) == Contains(Lower(name), Lower(p.nombre))
  IN SelectSeq(d.productos, has)

\* find_products_by_category(data, category): the products of the category,
\* case ignored
find_products_by_category(d, category) ==
  LET has(p) == Lower(Get(p, "categoria")) = Lower(category)
  IN SelectSeq(d.productos, has)

\* print_product(p): the lines printed, label and value
print_product(p) ==
  <<<<"Código", p.codigo>>,
    <<"Nombre", p.nombre>>,
    <<"Categoría", Get(p, "categoria")>>,
    <<"Cantidad", IntText(p.cantidad)>>,
    <<"Precio", Format2f(p.precio)>>,
    <<"Descripción", Get(p, "descripcion")>>,
    <<"Creado", Get(p, "fecha_creacion")>>,
    <<"Modificado", Get(p, "fecha_modificacion")>>>>

\* print_products_table(listado): the row printed for each product
print_products_table(listado) ==
  [i \in DOMAIN listado |->
     LET p == listado[i] IN
     <<p.codigo,
       IF Len(p.nombre) > 31 THEN SubSeq(p.nombre, 1, 29) \o <<".", ".">>
       ELSE p.nombre,
       Get(p, "categoria"), IntText(p.cantidad), Format2f(p.precio)>>]

\* consult_product(data), a the answers to its prompts: choice stripped, text
\* as input_non_empty returns it
consult_product(d, files, a) ==
  IF a.choice = <<"1">>
  THEN LET i == find_product_by_code(d, a.text) IN
       IF i # 0 THEN Result(d, files, <<print_product(d.productos[i])>>, a)
       ELSE Result(d, files,
              <<"No se encontró ningún producto con ese código.">>, a)
  ELSE IF a.choice = <<"2">>
  THEN LET results == find_products_by_name(d, a.text) IN
       IF results # <<>>
       THEN Result(d, files, <<print_products_table(results)>>, a)
       ELSE Result(d, files, <<"No se encontraron coincidencias.">>, a)
  ELSE IF a.choice = <<"3">>
  THEN LET results == find_products_by_category(d, a.text) IN
       IF results # <<>>
       THEN Result(d, files, <<print_products_table(results)>>, a)
       ELSE Result(d, files,
              <<"No se encontraron productos en esa categoría.">>, a)
  ELSE Result(d, files, <<"Opción no válida.">>, Read(a, {"menu", "choice"}))

\* backup_manual(data)
backup_manual(d, files, t) == backup_data(save_data(files, d), t)

\* option 9 with both save_data(data) calls left out: the file is copied as
\* it lies on disk, and nothing is copied when there is none
MenuBackup_no_save(d, files, t) ==
  IF DATA_FILE \in DOMAIN files
  THEN Result(d, backup_data(files, t), <<"Respaldo creado">>, [menu |-> "9"])
  ELSE Result(d, files, <<"Respaldo creado">>, [menu |-> "9"])

\* main, lines 405-407: option 9
MenuBackup(d, files, t) ==
  Result(d, backup_manual(d, save_data(files, d), t), <<"Respaldo creado">>,
         [menu |-> "9"])

\* main, lines 408-412: option 0
MenuExit(d, files) ==
  Result(d, save_data(files, d), <<"Datos guardados. ¡Hasta luego!">>,
         [menu |-> "0"])

\* main, lines 381-385: the catalog the loop starts with
MainLoad(files) ==
  LET d == load_data(files) IN
  IF "categorias" \notin DOMAIN d THEN SetKey(d, "categorias", <<>>) ELSE d

---------------------------------------------------------------------------
(* The menu loop of main(): one action per option.  U is the console: for  *)
(* each prompt, the lines a user may type at it.                           *)

Stripped(lines) == {Strip(l) : l \in lines}

\* datetime.now() during a command: the seconds of U.wait may have passed
\* since the last one
Clock(U) == {now + w : w \in U.wait} \cap 0..MaxTime

\* a handler has run at time t: its result becomes the state
Do(r, t) ==
  /\ data' = r.data
  /\ fs' = r.fs
  /\ out' = r.out
  /\ inp' = r.inp
  /\ now' = t
  /\ UNCHANGED pc

\* the model keeps the catalog within its bounds
Bounded(d) ==
  /\ Len(d.productos) <= MaxProducts
  /\ \A i \in DOMAIN d.productos : d.productos[i].cantidad <= MaxQty

\* the answers a user may give to the prompts of register_product
RegisterAnswers(U) ==
  [menu : {"1"},
   codigo : input_non_empty(U.code),
   nombre : input_non_empty(U.name),
   categoria : Stripped(U.cat),
   cantidad : input_positive_int(U.qty),
   precio : input_positive_float(U.price),
   descripcion : Stripped(U.desc)]

\* option 1
MainRegister(U) ==
  /\ pc = "menu"
  /\ \E t \in Clock(U), a \in RegisterAnswers(U) :
       LET r == register_product(data, fs, a, t)
       IN Bounded(r.data) /\ Do(r, t)

\* the answers a user may give to the prompts of consult_product
ConsultAnswers(U) ==
  [menu : {"2"}, choice : Stripped(U.choice), text : input_non_empty(U.text)]

\* option 2
MainConsult(U) ==
  /\ pc = "menu"
  /\ \E t \in Clock(U), a \in ConsultAnswers(U) :
       Do(consult_product(data, fs, a), t)

\* the answers a user may give to the prompts of modify_product
ModifyAnswers(U) ==
  [menu : {"3"},
   code : input_non_empty(U.code),
   nombre : Stripped(U.name),
   categoria : Stripped(U.cat),
   cantidad : Stripped(U.qty),
   precio : Stripped(U.price),
   descripcion : Stripped(U.desc)]

\* option 3
MainModify(U) ==
  /\ pc = "menu"
  /\ \E t \in Clock(U), a \in ModifyAnswers(U) :
       LET r == modify_product(data, fs, a, t)
       IN Bounded(r.data) /\ Do(r, t)

\* the answers a user may give to the prompts of delete_product
DeleteAnswers(U) ==
  [menu : {"4"}, code : input_non_empty(U.code), confirm : U.confirm]

\* option 4
MainDelete(U) ==
  /\ pc = "menu"
  /\ \E t \in Clock(U), a \in DeleteAnswers(U) :
       Do(delete_product(data, fs, a), t)

\* the answers a user may give to the prompts of control_stock
StockAnswers(U) ==
  [menu : {"6"},
   code : input_non_empty(U.code),
   opt : Stripped(U.stockopt),
   n : input_positive_int(U.n)]

\* option 6
MainStock(U) ==
  /\ pc = "menu"
  /\ \E t \in Clock(U), a \in StockAnswers(U) :
       LET r == control_stock(data, fs, a, t)
       IN Bounded(r.data) /\ Do(r, t)

\* the answers a user may give to the prompts of manage_categories
CategoryAnswers(U) ==
  [menu : {"7"},
   opt : Stripped(U.catopt),
   cat : input_non_empty(U.catname),
   new : input_non_empty(U.catname)]

\* option 7
MainCategories(U) ==
  /\ pc = "menu"
  /\ \E t \in Clock(U), a \in CategoryAnswers(U) :
       Do(manage_categories(data, fs, a, t), t)

\* option 8
MainReport(U) ==
  /\ pc = "menu"
  /\ \E t \in Clock(U) : Do(generate_report_csv(data, fs, t), t)

\* option 9
MainBackup(U) ==
  /\ pc = "menu"
  /\ \E t \in Clock(U) : Do(MenuBackup(data, fs, t), t)

\* option 0: the loop ends
MainExit(U) ==
  /\ pc = "menu"
  /\ \E t \in Clock(U) :
       LET r == MenuExit(data, fs) IN
       /\ data' = r.data
       /\ fs' = r.fs
       /\ out' = r.out
       /\ inp' = r.inp
       /\ now' = t
       /\ pc' = "exited"

\* the program is run again: main() loads the catalog
MainStart(U) ==
  /\ pc = "exited"
  /\ \E t \in Clock(U) :
       /\ data' = MainLoad(fs)
       /\ out' = <<>>
       /\ inp' = [menu |-> "start"]
       /\ now' = t
       /\ pc' = "menu"
       /\ UNCHANGED fs

\* the files main() may find: none, a corrupt productos.json, or a document
\* with no "categorias" key
InitialFiles ==
  {NoFiles,
   WriteFile(NoFiles, DATA_FILE, Garbage),
   WriteFile(NoFiles, DATA_FILE, JsonDump([productos |-> <<>>]))}

\* main() starts: it loads the catalog and shows the menu
Started(files) ==
  /\ fs = files
  /\ data = MainLoad(files)
  /\ now = 0
  /\ pc = "menu"
  /\ inp = [menu |-> "start"]
  /\ out = <<>>

\* the first run: there is no productos.json yet
Init == Started(NoFiles)

\* a run that finds whatever file was left behind
InitAnyFile == \E files \in InitialFiles : Started(files)

---------------------------------------------------------------------------
(* Consoles: the lines a session types.  Each specification below runs the  *)
(* same handlers on a console that varies the answers its claims are about. *)

\* codes that differ by case and by surrounding blanks
CodeConsole ==
  [code |-> {<<"a">>, <<"A">>, <<" ", "b">>},
   name |-> {<<>>, <<"n">>},
   cat |-> {<<>>},
   qty |-> {<<>>, <<"1">>},
   price |-> {<<>>, <<"1">>},
   desc |-> {<<>>},
   confirm |-> {<<"s">>, <<" ", "S">>, <<"n">>, <<>>},
   stockopt |-> {<<"1">>, <<"2">>, <<"3">>, <<"4">>},
   n |-> {<<"1">>},
   catopt |-> {<<"1">>, <<"2">>, <<"3">>, <<"x">>},
   catname |-> {SinCategoria},
   wait |-> {0}]

Next ==
  \/ MainRegister(CodeConsole)
  \/ MainModify(CodeConsole)
  \/ MainDelete(CodeConsole)
  \/ MainStock(CodeConsole)
  \/ MainCategories(CodeConsole)

Spec == Init /\ [][Next]_vars

\* quantities and prices that are empty, valid, negative and unparsable
StockConsole ==
  [code |-> {<<"a">>, <<"b">>},
   name |-> {<<"n">>},
   cat |-> {<<>>},
   qty |-> {<<>>, <<"1">>, <<"-", "1">>, <<"x">>},
   price |-> {<<>>, <<"0">>, <<"0", ".", "5">>, <<"-", "0", ".", "5">>,
              <<"n", "a", "n">>, <<"x">>},
   desc |-> {<<>>},
   confirm |-> {<<"s">>, <<"n">>},
   stockopt |-> {<<"1">>, <<"2">>, <<"3">>, <<"4">>},
   n |-> {<<"1">>, <<"-", "1">>},
   catopt |-> {<<"1">>, <<"3">>, <<"x">>},
   catname |-> {SinCategoria},
   wait |-> {0}]

NextStock ==
  \/ MainRegister(StockConsole)
  \/ MainModify(StockConsole)
  \/ MainDelete(StockConsole)
  \/ MainStock(StockConsole)
  \/ MainCategories(StockConsole)

SpecStock == Init /\ [][NextStock]_vars

\* categories typed at register and modify, and named at option 7
CategoryConsole ==
  [code |-> {<<"a">>, <<"b">>},
   name |-> {<<"n">>},
   cat |-> {<<>>, <<"X">>},
   qty |-> {<<"1">>},
   price |-> {<<"1">>},
   desc |-> {<<>>},
   confirm |-> {<<"s">>},
   stockopt |-> {<<"1">>},
   n |-> {<<"1">>},
   catopt |-> {<<"1">>, <<"2">>, <<"3">>, <<"x">>},
   catname |-> {<<"X">>, <<"Y">>, SinCategoria},
   wait |-> {0}]

NextCategories ==
  \/ MainRegister(CategoryConsole)
  \/ MainModify(CategoryConsole)
  \/ MainDelete(CategoryConsole)
  \/ MainStock(CategoryConsole)
  \/ MainCategories(CategoryConsole)

SpecCategories == Init /\ [][NextCategories]_vars

\* every command that writes productos.json, on whatever file main() found
PersistConsole ==
  [code |-> {<<"a">>, <<"B">>},
   name |-> {<<"n">>},
   cat |-> {<<>>, <<"X">>},
   qty |-> {<<"1">>},
   price |-> {<<"1">>},
   desc |-> {<<>>},
   confirm |-> {<<"s">>, <<"n">>},
   stockopt |-> {<<"2">>, <<"3">>},
   n |-> {<<"1">>},
   catopt |-> {<<"1">>, <<"2">>, <<"3">>},
   catname |-> {<<"X">>, <<"Y">>},
   wait |-> {0}]

NextPersist ==
  \/ MainRegister(PersistConsole)
  \/ MainModify(PersistConsole)
  \/ MainDelete(PersistConsole)
  \/ MainStock(PersistConsole)
  \/ MainCategories(PersistConsole)
  \/ MainExit(PersistConsole)
  \/ MainStart(PersistConsole)

SpecPersist == InitAnyFile /\ [][NextPersist]_vars

\* backups taken in the same second and a second apart, of a one-product
\* catalog
BackupConsole ==
  [code |-> {<<"a">>},
   name |-> {<<"n">>},
   cat |-> {<<>>},
   qty |-> {<<"1">>},
   price |-> {<<"1">>},
   desc |-> {<<>>},
   confirm |-> {<<"s">>, <<"n">>},
   stockopt |-> {<<"1">>, <<"3">>},
   n |-> {<<"1">>},
   wait |-> {0, 1}]

NextBackup ==
  \/ MainRegister(BackupConsole)
  \/ MainModify(BackupConsole)
  \/ MainDelete(BackupConsole)
  \/ MainStock(BackupConsole)
  \/ MainBackup(BackupConsole)

SpecBackup == InitAnyFile /\ [][NextBackup]_vars

\* reports written in the same second and a second apart, of catalogs that
\* change in between
ReportConsole ==
  [code |-> {<<"a">>, <<"b">>},
   name |-> {<<"n">>},
   cat |-> {<<>>},
   qty |-> {<<"1">>},
   price |-> {<<"1", ".", "5">>},
   desc |-> {<<>>, <<"d">>},
   confirm |-> {<<"s">>},
   wait |-> {0, 1}]

NextReport ==
  \/ MainRegister(ReportConsole)
  \/ MainDelete(ReportConsole)
  \/ MainReport(ReportConsole)

SpecReport == Init /\ [][NextReport]_vars

\* one product as registered
ModifyRegisterConsole ==
  [code |-> {<<"a">>},
   name |-> {<<"n">>},
   cat |-> {<<>>},
   qty |-> {<<"1">>},
   price |-> {<<"1">>},
   desc |-> {<<>>},
   wait |-> {0}]

\* every field of modify_product left empty, blank, given a new value, or
\* given a quantity or a price that is negative or not a number
ModifyConsole ==
  [code |-> {<<"A">>},
   name |-> {<<>>, <<"m", " ">>},
   cat |-> {<<" ">>, <<"X">>},
   qty |-> {<<>>, <<"2">>, <<"-", "1">>, <<"x">>},
   price |-> {<<>>, <<"0", ".", "5">>, <<"-", "1">>, <<"x">>},
   desc |-> {<<>>, <<"d">>},
   wait |-> {0}]

NextModify ==
  \/ MainRegister(ModifyRegisterConsole)
  \/ MainModify(ModifyConsole)

SpecModify == Init /\ [][NextModify]_vars

\* products whose codes share a letter, looked up by code in either case, by
\* name and by category
FindConsole ==
  [code |-> {<<"a", "b">>, <<"B">>, <<"A", "B">>},
   name |-> {<<"n">>, <<"N", "m">>},
   cat |-> {<<>>},
   qty |-> {<<"1">>},
   price |-> {<<"1">>},
   desc |-> {<<>>},
   confirm |-> {<<"s">>},
   choice |-> {<<"1">>, <<"2">>, <<"3">>, <<"4">>},
   text |-> {<<"a", "B">>, <<"b">>, <<"a">>, <<"n">>},
   wait |-> {0}]

NextFind ==
  \/ MainRegister(FindConsole)
  \/ MainDelete(FindConsole)
  \/ MainConsult(FindConsole)

SpecFind == Init /\ [][NextFind]_vars

\* every command that touches a product, a second apart or in the same
\* second
FrameConsole ==
  [code |-> {<<"a">>, <<"b">>},
   name |-> {<<"n">>},
   cat |-> {<<"X">>},
   qty |-> {<<"1">>},
   price |-> {<<"1">>},
   desc |-> {<<>>},
   confirm |-> {<<"s">>},
   stockopt |-> {<<"1">>},
   n |-> {<<"1">>},
   catopt |-> {<<"2">>, <<"3">>},
   catname |-> {<<"X">>, <<"Y">>},
   wait |-> {0, 1}]

NextFrame ==
  \/ MainRegister(FrameConsole)
  \/ MainModify(FrameConsole)
  \/ MainDelete(FrameConsole)
  \/ MainStock(FrameConsole)
  \/ MainCategories(FrameConsole)

SpecFrame == Init /\ [][NextFrame]_vars

---------------------------------------------------------------------------
(* Claims checked under Spec *)

\* the products whose code equals `code` when case is ignored
SameCode(d, code) ==
  {i \in DOMAIN d.productos : Lower(d.productos[i].codigo) = Lower(code)}

\* C1: no two products of the catalog have codes that are equal under
\* case-insensitive comparison, whatever sequence of register, modify,
\* delete, stock and category commands ran since the empty catalog.
C1_UniqueCodes ==
  \A i, j \in DOMAIN data.productos :
    i # j =>
      Lower(data.productos[i].codigo) # Lower(data.productos[j].codigo)

\* C1's case: the catalog is full and a register of the second product's
\* code, typed in another case or not, has just been refused
C1_Witness ==
  /\ Len(data.productos) = 2
  /\ inp.menu = "1"
  /\ SameCode(data, inp.codigo) = {2}
  /\ out = <<"[ERROR] Ya existe un producto con código">>

\* C2: a register whose code equals, case-insensitively, the code of a
\* product of the catalog prints the duplicate-code error and leaves the
\* product list and the category list as they were.
C2_DuplicateRejected ==
  [][(inp'.menu = "1" /\ SameCode(data, inp'.codigo) # {})
       => /\ out' = <<"[ERROR] Ya existe un producto con código">>
          /\ data'.productos = data.productos
          /\ data'.categorias = data.categorias]_vars

\* C2's case: a register was refused for a code that is in the catalog only
\* in another letter case
C2_Witness ==
  /\ inp.menu = "1"
  /\ out = <<"[ERROR] Ya existe un producto con código">>
  /\ SameCode(data, inp.codigo) # {}
  /\ \A i \in DOMAIN data.productos : data.productos[i].codigo # inp.codigo

\* C9: a product delete on a code of the catalog, answered with anything but
\* s or S (blanks around it ignored), changes neither the product list, nor
\* the category list, nor any file.
C9_UnconfirmedDeleteNoOp ==
  [][(/\ inp'.menu = "4"
      /\ SameCode(data, inp'.code) # {}
      /\ Strip(inp'.confirm) \notin {<<"s">>, <<"S">>})
       => data' = data /\ fs' = fs]_vars

\* C9's case: a delete of an existing product was answered with a blank line
\* and cancelled
C9_Witness ==
  /\ inp.menu = "4"
  /\ SameCode(data, inp.code) # {}
  /\ Strip(inp.confirm) = <<>>
  /\ out = <<"Operación cancelada.">>

---------------------------------------------------------------------------
(* Claims checked under SpecStock *)

\* every product has quantity >= 0 and price >= 0
NonNegative ==
  \A i \in DOMAIN data.productos :
    data.productos[i].cantidad >= 0 /\ data.productos[i].precio >= 0

\* a modify that supplies a negative or unparsable quantity (price) leaves
\* the quantity (price) of its product as it was
RejectedKept ==
  (inp'.menu = "3" /\ SameCode(data, inp'.code) # {}) =>
    \A i \in SameCode(data, inp'.code) :
      /\ (inp'.cantidad # <<>>
            /\ (~ParseInt(inp'.cantidad).ok \/ ParseInt(inp'.cantidad).val < 0))
           => data'.productos[i].cantidad = data.productos[i].cantidad
      /\ (inp'.precio # <<>>
            /\ (~ParseFloat(inp'.precio).ok \/ ParseFloat(inp'.precio).val < 0))
           => data'.productos[i].precio = data.productos[i].precio

\* C3: every product has quantity >= 0 and price >= 0 in every state that
\* register, modify and stock commands reach, and a command that supplies a
\* negative or unparsable quantity or price leaves that field as it was.
C3_NonNegativeKept == []NonNegative /\ [][RejectedKept]_vars

\* C3's case: a modify supplied a negative quantity and an unparsable price
\* for a product in stock, and both were refused
C3_Witness ==
  /\ inp.menu = "3"
  /\ SameCode(data, inp.code) # {}
  /\ inp.cantidad = <<"-", "1">>
  /\ inp.precio = <<"x">>
  /\ out = <<"Cantidad no válida, se mantiene la anterior.",
             "Precio no válido, se mantiene el anterior.",
             "Producto actualizado correctamente.">>
  /\ \A i \in SameCode(data, inp.code) : data.productos[i].cantidad = 2

\* C4: "3) Disminuir" by n on a product of the catalog: when n exceeds the
\* stock it prints the refusal and changes neither the catalog nor any file;
\* otherwise the stock becomes exactly the stock minus n.
C4_Decrement ==
  [][(/\ inp'.menu = "6"
      /\ SameCode(data, inp'.code) # {}
      /\ inp'.opt = <<"3">>)
       => \A i \in SameCode(data, inp'.code) :
            IF inp'.n > data.productos[i].cantidad
            THEN /\ out' = <<"No puede disminuir más que la cantidad disponible.">>
                 /\ data' = data
                 /\ fs' = fs
            ELSE data'.productos[i].cantidad
                   = data.productos[i].cantidad - inp'.n]_vars

\* C4's case: a decrement larger than the stock was refused after a
\* decrement had emptied the stock
C4_Witness ==
  /\ inp.menu = "6"
  /\ SameCode(data, inp.code) # {}
  /\ inp.opt = <<"3">>
  /\ inp.n = 1
  /\ \A i \in SameCode(data, inp.code) :
       /\ data.productos[i].cantidad = 0
       /\ "fecha_modificacion" \in DOMAIN data.productos[i]
  /\ out = <<"No puede disminuir más que la cantidad disponible.">>

---------------------------------------------------------------------------
(* Claims checked under SpecCategories *)

\* C5: a rename of category A to B that succeeds (A in the list, B not in
\* it) sets the category of every product of A to B and changes the category
\* of no other product.
C5_Rename ==
  [][(/\ inp'.menu = "7"
      /\ inp'.opt = <<"2">>
      /\ InList(inp'.cat, data.categorias)
      /\ ~InList(inp'.new, data.categorias))
       => /\ DOMAIN data'.productos = DOMAIN data.productos
          /\ \A i \in DOMAIN data.productos :
               data'.productos[i].categoria =
                 IF data.productos[i].categoria = inp'.cat THEN inp'.new
                 ELSE data.productos[i].categoria]_vars

\* C5's case: a rename has moved one product to the new name and left a
\* product of another category alone
C5_Witness ==
  /\ inp.menu = "7"
  /\ inp.opt = <<"2">>
  /\ out = <<"Categoría renombrada y productos actualizados.">>
  /\ \E i, j \in DOMAIN data.productos :
       /\ data.productos[i].categoria = inp.new
       /\ "fecha_modificacion" \in DOMAIN data.productos[i]
       /\ data.productos[j].categoria \notin {inp.new, inp.cat}
       /\ "fecha_modificacion" \notin DOMAIN data.productos[j]

\* C6: a delete of category A that succeeds (A in the list) gives every
\* product of A the category "Sin categoría", leaves the category of every
\* other product as it was, and removes A from the list.
C6_DeleteCategory ==
  [][(/\ inp'.menu = "7"
      /\ inp'.opt = <<"3">>
      /\ InList(inp'.cat, data.categorias))
       => /\ DOMAIN data'.productos = DOMAIN data.productos
          /\ \A i \in DOMAIN data.productos :
               data'.productos[i].categoria =
                 IF data.productos[i].categoria = inp'.cat THEN SinCategoria
                 ELSE data.productos[i].categoria
          /\ ~InList(inp'.cat, data'.categorias)]_vars

\* C6's case: the delete of a category other than "Sin categoría" has moved
\* one product to "Sin categoría" and left a product of another category
C6_Witness ==
  /\ inp.menu = "7"
  /\ inp.opt = <<"3">>
  /\ inp.cat # SinCategoria
  /\ out = <<"Categoría eliminada y productos reasignados a 'Sin categoría'.">>
  /\ \E i, j \in DOMAIN data.productos :
       /\ data.productos[i].categoria = SinCategoria
       /\ "fecha_modificacion" \in DOMAIN data.productos[i]
       /\ data.productos[j].categoria # SinCategoria
       /\ "fecha_modificacion" \notin DOMAIN data.productos[j]

\* C7: the category of every product is in the category list or is
\* "Sin categoría", in every state that register, modify, stock, product
\* delete and category commands reach from the empty catalog.
C7_CategoryKnown ==
  \A i \in DOMAIN data.productos :
    \/ InList(data.productos[i].categoria, data.categorias)
    \/ data.productos[i].categoria = SinCategoria

\* C7's case: "Sin categoría" has been deleted from the list under a product
\* that keeps it, beside a product that modify moved to a listed category
C7_Witness ==
  /\ ~InList(SinCategoria, data.categorias)
  /\ inp.menu = "3"
  /\ "categoria" \in DOMAIN inp
  /\ inp.categoria # <<>>
  /\ \E i, j \in DOMAIN data.productos :
       /\ data.productos[i].categoria = SinCategoria
       /\ data.productos[j].categoria = inp.categoria
       /\ InList(inp.categoria, data.categorias)

---------------------------------------------------------------------------
(* Claims checked under SpecPersist and SpecBackup *)

\* the document of the catalog is what productos.json holds
Persisted(files, d) ==
  DATA_FILE \in DOMAIN files /\ files[DATA_FILE] = JsonDump(d)

\* C8: whenever a register, modify, product delete, stock or category
\* command has changed the catalog, productos.json holds the document of the
\* new catalog when the command returns.
C8_ChangePersisted ==
  [][(inp'.menu \in {"1", "3", "4", "6", "7"} /\ data' # data)
       => Persisted(fs', data')]_vars

\* C8's case: a category was created in an empty catalog, and the file now
\* holds the catalog with that category
C8_Witness ==
  /\ inp.menu = "7"
  /\ out = <<"Categoría creada.">>
  /\ data.productos = <<>>
  /\ Len(data.categorias) = 1
  /\ Persisted(fs, data)

\* C10: whenever option 9 has completed, the archive it wrote holds the
\* document of the catalog in memory.
C10_BackupCurrent ==
  inp.menu = "9" =>
    /\ BackupPath(now) \in DOMAIN fs
    /\ fs[BackupPath(now)] = JsonDump(data)

\* C10's case: a backup of a one-product catalog taken a second after a
\* backup of the empty catalog, which is still there
C10_Witness ==
  /\ inp.menu = "9"
  /\ now = 1
  /\ Len(data.productos) = 1
  /\ BackupPath(0) \in DOMAIN fs
  /\ fs[BackupPath(0)] = JsonDump(EmptyData)
  /\ BackupPath(1) \in DOMAIN fs
  /\ fs[BackupPath(1)] = JsonDump(data)

---------------------------------------------------------------------------
(* Claims checked under SpecReport *)

\* the report files
Reports(files) == {p \in DOMAIN files : files[p].kind = "csv"}

\* C11: a report of a non-empty catalog is written to a file name no earlier
\* report has, and every earlier report is still there with its content,
\* also when no second has passed since that report.
C11_NeverOverwrites ==
  [][(inp'.menu = "8" /\ data.productos # <<>>) =>
       /\ Reports(fs') # Reports(fs)
       /\ \A p \in Reports(fs) : p \in DOMAIN fs' /\ fs'[p] = fs[p]]_vars

---------------------------------------------------------------------------
(* Claims checked under SpecCategories, continued *)

\* the name is one of the category list
Known(d, name) == \E i \in DOMAIN d.categorias : d.categorias[i] = name

\* the command just read by the step is one the catalog makes fail: a code
\* no product has, or a category name the list forbids
Fails ==
  \/ /\ inp'.menu \in {"3", "4", "6"}
     /\ SameCode(data, inp'.code) = {}
  \/ /\ inp'.menu = "7"
     /\ inp'.opt = <<"1">>
     /\ Known(data, inp'.cat)
  \/ /\ inp'.menu = "7"
     /\ inp'.opt = <<"2">>
     /\ \/ ~Known(data, inp'.cat)
        \/ "new" \in DOMAIN inp' /\ Known(data, inp'.new)
  \/ /\ inp'.menu = "7"
     /\ inp'.opt = <<"3">>
     /\ ~Known(data, inp'.cat)

\* C12: modify, delete and stock adjustment on a code no product has, create
\* of a category already listed, rename of an unlisted category or to a
\* listed name, and delete of an unlisted category leave the product list
\* and the category list as they were.
C12_FailureChangesNothing ==
  [][Fails => /\ data'.productos = data.productos
              /\ data'.categorias = data.categorias]_vars

\* C12's case: a rename to a name already listed has been refused while a
\* product has the category to rename
C12_Witness ==
  /\ inp.menu = "7"
  /\ inp.opt = <<"2">>
  /\ "new" \in DOMAIN inp
  /\ Known(data, inp.cat)
  /\ Known(data, inp.new)
  /\ inp.new # inp.cat
  /\ out = <<"Ya existe una categoría con ese nombre.">>
  /\ \E i \in DOMAIN data.productos : data.productos[i].categoria = inp.cat

---------------------------------------------------------------------------
(* Claims checked under SpecModify *)

\* the text is a quantity modify_product accepts
ValidCantidad(v) == v # <<>> /\ ParseInt(v).ok /\ ParseInt(v).val >= 0

\* the text is a price modify_product accepts
ValidPrecio(v) ==
  v # <<>> /\ ParseFloat(v).ok /\ ~ParseFloat(v).nan /\ ParseFloat(v).val >= 0

\* C13: modify_product on a product that exists gives each of nombre,
\* categoria, cantidad, precio and descripcion the value typed when one was
\* typed and, for cantidad and precio, is a number >= 0; it keeps the value
\* the field had otherwise, whatever was typed for the other fields.
C13_PartialUpdate ==
  [][(inp'.menu = "3" /\ SameCode(data, inp'.code) # {}) =>
       \A i \in SameCode(data, inp'.code) :
         LET p == data.productos[i]
             q == data'.productos[i]
         IN /\ q.nombre =
                 IF inp'.nombre # <<>> THEN inp'.nombre ELSE p.nombre
            /\ q.categoria =
                 IF inp'.categoria # <<>> THEN inp'.categoria ELSE p.categoria
            /\ q.cantidad =
                 IF ValidCantidad(inp'.cantidad)
                 THEN ParseInt(inp'.cantidad).val ELSE p.cantidad
            /\ q.precio =
                 IF ValidPrecio(inp'.precio)
                 THEN ParseFloat(inp'.precio).val ELSE p.precio
            /\ q.descripcion =
                 IF inp'.descripcion # <<>> THEN inp'.descripcion
                 ELSE p.descripcion]_vars

\* C13's case: a modify that typed a new name, no category, a quantity that
\* is not a number and a valid price has changed the name and the price and
\* kept the category and the quantity
C13_Witness ==
  /\ inp.menu = "3"
  /\ "nombre" \in DOMAIN inp
  /\ inp.nombre = <<"m">>
  /\ inp.categoria = <<>>
  /\ inp.cantidad = <<"x">>
  /\ inp.precio = <<"0", ".", "5">>
  /\ Len(data.productos) = 1
  /\ data.productos[1].nombre = <<"m">>
  /\ data.productos[1].categoria = SinCategoria
  /\ data.productos[1].cantidad = 1
  /\ data.productos[1].precio = 50
  /\ out = <<"Cantidad no válida, se mantiene la anterior.",
             "Producto actualizado correctamente.">>

\* the five fields of a product that modify_product can change
Fields == {"nombre", "categoria", "cantidad", "precio", "descripcion"}

\* C14: fecha_modificacion is absent from a product until an operation
\* changes one of its nombre, categoria, cantidad, precio or descripcion: the
\* step that first sets it on a product also changes one of these fields of
\* that product.
C14_ModifiedOnlyByChange ==
  [][\A i \in DOMAIN data.productos \cap DOMAIN data'.productos :
       LET p == data.productos[i]
           q == data'.productos[i]
       IN (/\ q.codigo = p.codigo
           /\ q.fecha_creacion = p.fecha_creacion
           /\ "fecha_modificacion" \notin DOMAIN p
           /\ "fecha_modificacion" \in DOMAIN q)
          => \E f \in Fields : q[f] # p[f]]_vars

---------------------------------------------------------------------------
(* Claims checked under SpecPersist, continued *)

\* main() has just loaded a productos.json that is absent or is not JSON
LoadedNothing ==
  /\ inp.menu = "start"
  /\ \/ DATA_FILE \notin DOMAIN fs
     \/ fs[DATA_FILE].kind # "json"

\* C15: load_data returns the empty catalog, and the program prints nothing
\* about it, when productos.json is absent or cannot be parsed; when the
\* program is started again after option 0 saved the catalog, it loads
\* exactly that catalog.
C15_Load ==
  /\ [](LoadedNothing => data = EmptyData /\ out = <<>>)
  /\ [][(pc = "exited" /\ pc' = "menu") => data' = data]_vars

\* C15's case: the program was started again and loaded a product, its
\* price and quantity read back from the digits of the document
C15_Witness ==
  /\ inp.menu = "start"
  /\ now = 0
  /\ Len(data.productos) = 1
  /\ data.productos[1].precio = 100
  /\ data.productos[1].cantidad = 2
  /\ fs[DATA_FILE].body.productos[1].precio = <<"1", ".", "0">>
  /\ fs[DATA_FILE].body.productos[1].categoria =
       <<"\"">> \o SinCategoria \o <<"\"">>
  /\ "fecha_modificacion" \in DOMAIN data.productos[1]

---------------------------------------------------------------------------
(* Claims checked under SpecFind *)

\* C17: with products of different codes registered one after the other, a
\* lookup by code, the code typed in any letter case, shows the product
\* registered with that code and no other, and reports that there is none
\* when the typed code is no product's.
C17_FindByCode ==
  [][(inp'.menu = "2" /\ inp'.choice = <<"1">>) =>
       IF SameCode(data, inp'.text) = {}
       THEN out' = <<"No se encontró ningún producto con ese código.">>
       ELSE \E i \in SameCode(data, inp'.text) :
              /\ Len(out') = 1
              /\ out'[1][1] = <<"Código", data.productos[i].codigo>>
              /\ out'[1][2] = <<"Nombre", data.productos[i].nombre>>
              /\ out'[1][7] = <<"Creado", data.productos[i].fecha_creacion>>]_vars

\* C17's case: with "ab" and "B" registered in that order, a lookup of "b"
\* has shown the second product
C17_Witness ==
  /\ inp.menu = "2"
  /\ inp.choice = <<"1">>
  /\ inp.text = <<"b">>
  /\ Len(data.productos) = 2
  /\ Lower(data.productos[1].codigo) = <<"a", "b">>
  /\ data.productos[2].codigo = <<"B">>
  /\ data.productos[2].nombre # data.productos[1].nombre
  /\ out[1][1] = <<"Código", <<"B">>>>
  /\ out[1][2] = <<"Nombre", data.productos[2].nombre>>

---------------------------------------------------------------------------
(* Claims checked under SpecFrame and Spec *)

\* product i of the catalog before the step is product j after it, code and
\* date of creation as they were
SameProduct(i, j) ==
  /\ j \in DOMAIN data'.productos
  /\ data'.productos[j].codigo = data.productos[i].codigo
  /\ data'.productos[j].fecha_creacion = data.productos[i].fecha_creacion

\* C18: no register, modify, stock, category rename or category delete
\* changes the codigo or the fecha_creacion of a product, and a product
\* delete changes neither on the products it does not remove.
C18_CodeAndCreationFixed ==
  [][\A i \in DOMAIN data.productos :
       IF inp'.menu = "4"
       THEN i \in SameCode(data, inp'.code)
            \/ \E j \in DOMAIN data'.productos : SameProduct(i, j)
       ELSE SameProduct(i, i)]_vars

\* C18's case: a product registered at second 0 has been modified and has
\* had its category renamed at second 1, after another product was
\* registered at second 1
C18_Witness ==
  /\ inp.menu = "7"
  /\ inp.opt = <<"2">>
  /\ out = <<"Categoría renombrada y productos actualizados.">>
  /\ now = 1
  /\ Len(data.productos) = 2
  /\ data.productos[1].fecha_creacion = Isoformat(0)
  /\ data.productos[2].fecha_creacion = Isoformat(1)
  /\ data.productos[1].categoria = <<"Y">>
  /\ data.productos[1].fecha_modificacion = Isoformat(1)

\* the products other than those with the code typed, in their order
Others(d, code) ==
  LET other(p) == Lower(p.codigo) # Lower(code)
  IN SelectSeq(d.productos, other)

---------------------------------------------------------------------------
(* Claims checked under SpecCategories, continued *)

\* C20: from the empty catalog, whatever is registered, modified, created,
\* renamed and deleted, no name is in the category list twice.
C20_NoDuplicateCategory ==
  \A i, j \in DOMAIN data.categorias :
    i # j => data.categorias[i] # data.categorias[j]

\* C20's case: a product was registered with a category that was already
\* the first of two in the list, and the list still has two names
C20_Witness ==
  /\ inp.menu = "1"
  /\ out = <<"Producto registrado correctamente.">>
  /\ inp.categoria = <<"X">>
  /\ Len(data.categorias) = 2
  /\ data.categorias[1] = <<"X">>

====
